---- MODULE Spec2Model ----
(***************************************************************************)
(* One deck of the YUNIDA20 mixing console (hooks/useDeckAudio.ts): the    *)
(* transport (play / pause / seek), the position clock anchored by         *)
(* startTimeRef / pauseTimeRef, the composed playback rate, hot cues and   *)
(* the asynchronous track load with its BPM analysis, the tap tempo and    *)
(* the effect send; and the crossfader stage of the mixer                  *)
(* (components/Library.tsx, Mixer).                                        *)
(*                                                                         *)
(* Numbers.  Times and positions are whole clock units.  Rates are fixed   *)
(* point in units of 1/RateScale; a product elapsed * rate is rounded      *)
(* towards minus infinity to a whole unit (the code uses doubles).  A bpm   *)
(* is held in units of 1/BpmScale (tapBpm rounds to one decimal), tap      *)
(* times are milliseconds of Date.now().  Mixer positions and volumes are  *)
(* hundredths, curve gains are units of 1/GainScale and a channel's target *)
(* gain is the product volume * curve gain.                                *)
(*                                                                         *)
(* React.  A handler reads the state of the render it was created in and   *)
(* its setState calls are batched; the render and the effects whose        *)
(* dependencies changed run right after the handler (automatic batching).  *)
(* Each action below is one handler (or one promise continuation, or one   *)
(* animation frame) together with that render and those effects.           *)
(***************************************************************************)
EXTENDS Integers, FiniteSets, Sequences, TLC

\* ------------------------------------------------------------------ bounds
MaxTime == 2
MaxLoads == 2
MaxTaps == 6
MaxTripTime == 5

\* --------------------------------------------------------------- constants
RateScale == 100000
DefaultBpm == 128
NumCues == 3
BpmScale == 10
MsPerMinute == 60000
TapHistory == 4
TapResetMs == 2000
GainScale == 10000
CutSlope == 25

NoBuffer == "none"
NoSource == [buffer |-> "none", rate |-> 0, loop |-> FALSE]
NoCue == -1
NoGainNode == -1
NoResult == -1
NoSignal == [length |-> 0, sampleRate |-> 0, renders |-> FALSE, pulses |-> <<>>]

\* input domains
Files == {"f1", "f2", "bad"}
Decodable == {"f1", "f2"}
TrackDuration == [f \in Decodable |-> IF f = "f1" THEN 3 ELSE 2]
DetectedBpm == [f \in Decodable |-> IF f = "f1" THEN 120 ELSE 140]
PitchValues == {50000, 100000, 150000}
BendValues == {-4000, 0, 4000}
TargetBpms == {140}
FXTypes == {"NONE", "ECHO", "REVERB", "FLANGER"}
WetValues == {0, 1}
CueSlots == 1..NumCues
TapGaps == {400, 500, 2000, 3000}
FxUnits == {"delay", "convolver", "flangerDelay"}
Curves == {"LINEAR", "SMOOTH", "CUT"}
CrossfaderValues == {-100, -96, -92, -50, 0, 50, 92, 96, 100}
VolValues == {0, 80, 100}

VARIABLES
  now,                  \* audioContext.currentTime
  isPlaying, isLooping, isReverse, duration, currentTime,
  pitch, bend, syncRate,
  hotCues,
  isLoaded, fileName, bpm, isBpmAnalyzing, audioBuffer,
  activeFX, fxWet,
  fxInputTo,            \* the units fxInputGain is connected to
  fxOutputFrom,         \* the units connected to fxOutputGain
  tapTimesRef,
  wallClock,            \* Date.now()
  tapCount,             \* number of taps so far
  bpmInput,             \* the buffer handed to detectBpm
  bpmResult,            \* what detectBpm resolved to
  crossfader, curve, volA, volB,
  gainARef, gainBRef,   \* target gain of each channel gain node
  sourceNodeRef, startTimeRef, pauseTimeRef, lastPlaybackRateRef,
  decoding,             \* loadFile calls awaiting decodeAudioData
  detecting,            \* detectBpm promises not yet settled
  loadGen,              \* number of loadFile calls issued so far
  lastOp                \* history: the handler that ran last and, for the
                        \* steps of a load, the deck as it was before it

vars == <<now, isPlaying, isLooping, isReverse, duration, currentTime,
          pitch, bend, syncRate, hotCues, isLoaded, fileName, bpm,
          isBpmAnalyzing, audioBuffer, activeFX, fxWet, sourceNodeRef,
          startTimeRef, pauseTimeRef, lastPlaybackRateRef, decoding,
          detecting, loadGen, lastOp, fxInputTo, fxOutputFrom,
          tapTimesRef, wallClock, tapCount, crossfader, curve, volA, volB,
          gainARef, gainBRef, bpmInput, bpmResult>>

\* ------------------------------------------------------------ pure helpers
\* elapsed * rate, rate in fixed point
Mul(elapsed, rate) == (elapsed * rate) \div RateScale

\* the JavaScript % operator: the result has the sign of the dividend
JsRem(a, d) == IF a >= 0 THEN a % d ELSE 0 - ((0 - a) % d)

\* while (p < 0) p += d
RECURSIVE AddWhileNegative(_, _)
AddWhileNegative(p, d) == IF p < 0 THEN AddWhileNegative(p + d, d) ELSE p

\* the remainder alone, without adding the duration to a negative position
Normalize_RemainderOnly(p, d) == IF d > 0 THEN JsRem(p, d) ELSE p

\* if (duration > 0) { while (p < 0) p += duration; p = p % duration }
Normalize(p, d) == IF d > 0 THEN JsRem(AddWhileNegative(p, d), d) ELSE p

\* the sync ratio added whole instead of as an offset from 1
RateOf_WholeSyncRatio(p, b, s, r) == (p + b + s) * (IF r THEN -1 ELSE 1)

\* playbackRate = (pitch + bend + (syncRate - 1)) * (isReverse ? -1 : 1)
RateOf(p, b, s, r) == (p + b + (s - RateScale)) * (IF r THEN -1 ELSE 1)

playbackRate == RateOf(pitch, bend, syncRate, isReverse)

\* pauseTimeRef + elapsed * rate, normalized
ComputedTime(pt, st, rate, dur, t) == Normalize(pt + Mul(t - st, rate), dur)

\* what updateLoop hands to setCurrentTime
Position ==
  IF isPlaying
    THEN ComputedTime(pauseTimeRef, startTimeRef, playbackRate, duration, now)
    ELSE pauseTimeRef

BufferDuration(b) == IF b = NoBuffer THEN 0 ELSE TrackDuration[b]

NoCues == [i \in CueSlots |-> NoCue]

\* history of the last step
Snapshot == [isPlaying |-> isPlaying, audioBuffer |-> audioBuffer,
             duration |-> duration, fileName |-> fileName, bpm |-> bpm,
             position |-> Position, hotCues |-> hotCues,
             syncRate |-> syncRate, isReverse |-> isReverse]
NoSnapshot == [isPlaying |-> FALSE, audioBuffer |-> NoBuffer,
               duration |-> 0, fileName |-> NoBuffer, bpm |-> 0,
               position |-> 0, hotCues |-> NoCues,
               syncRate |-> 0, isReverse |-> FALSE]

\* history of a reverse round trip: toggleReverse on a playing deck (phase 1,
\* from position p at rate r), d units of time, toggleReverse again (phase
\* 2), and the same d units of time counted down in left; any other step
\* ends it
NoTrip == [phase |-> 0, p |-> 0, r |-> 0, d |-> 0, left |-> 0]
TripAfter(name) ==
  LET t == lastOp.trip
  IN CASE name = "toggleReverse" /\ isPlaying /\ t.phase # 1
            -> [phase |-> 1, p |-> Position, r |-> playbackRate, d |-> 0,
                left |-> 0]
       [] name = "toggleReverse" /\ isPlaying /\ t.phase = 1 /\ t.d > 0
            -> [t EXCEPT !.phase = 2, !.left = t.d]
       [] name = "tick" /\ t.phase = 1
            -> [t EXCEPT !.d = t.d + 1]
       [] name = "tick" /\ t.phase = 2 /\ t.left > 0
            -> [t EXCEPT !.left = t.left - 1]
       [] OTHER -> NoTrip
Op(name) == [op |-> name, pre |-> NoSnapshot, trip |-> TripAfter(name)]
OpFrom(name) == [op |-> name, pre |-> Snapshot, trip |-> TripAfter(name)]

\* --------------------------------------------------------------- the clock
Refs == [ip |-> isPlaying, src |-> sourceNodeRef,
         st |-> startTimeRef, pt |-> pauseTimeRef]

\* play() without the guard on a missing track
PlayFn_NoTrackGuard(r) ==
  [r EXCEPT !.src = [buffer |-> audioBuffer, rate |-> playbackRate,
                     loop |-> isLooping],
            !.st = now - r.pt,
            !.ip = TRUE]

\* play(), on the refs r, with the values of the current render
PlayFn(r) ==
  IF audioBuffer = NoBuffer THEN r
  ELSE LET d == BufferDuration(audioBuffer)
           offset == JsRem(r.pt, d)
           startOffset == IF offset < 0 THEN d + offset ELSE offset
       IN [r EXCEPT !.src = [buffer |-> audioBuffer, rate |-> playbackRate,
                             loop |-> isLooping],
                    !.st = now - startOffset,
                    !.ip = TRUE]

\* pause(), on the refs r, with the values of the current render
PauseFn(r) ==
  IF r.src # NoSource /\ isPlaying
    THEN [r EXCEPT !.src = NoSource,
                   !.pt = Normalize(r.pt + Mul(now - r.st, playbackRate),
                                    duration),
                   !.ip = FALSE]
    ELSE r

\* seek(time): pause if playing, move the anchor, play again
SeekFn(r, time) ==
  LET wasPlaying == isPlaying
      r1 == IF wasPlaying THEN PauseFn(r) ELSE r
      r2 == [r1 EXCEPT !.pt = time]
  IN IF wasPlaying THEN PlayFn(r2) ELSE r2

\* The effect on [playbackRate, duration, isPlaying]: run after a render in
\* which one of them changed; r are the refs the handler left, last is
\* lastPlaybackRateRef as the handler left it, rate and dur are the values
\* of the new render.
RateEffect(r, last, rate, dur) ==
  LET runs == rate # playbackRate \/ dur # duration \/ r.ip # isPlaying
      reanchor == runs /\ r.ip /\ r.src # NoSource
  IN /\ isPlaying' = r.ip
     /\ duration' = dur
     /\ startTimeRef' = IF reanchor THEN now ELSE r.st
     /\ pauseTimeRef' =
          IF reanchor THEN Normalize(r.pt + Mul(now - r.st, last), dur)
                      ELSE r.pt
     /\ sourceNodeRef' = IF reanchor THEN [r.src EXCEPT !.rate = rate]
                                     ELSE r.src
     /\ lastPlaybackRateRef' = IF runs THEN rate ELSE last

\* ------------------------------------------------------------------- Init
Init ==
  /\ now = 0
  /\ isPlaying = FALSE /\ isLooping = FALSE /\ isReverse = FALSE
  /\ duration = 0 /\ currentTime = 0
  /\ pitch = RateScale /\ bend = 0 /\ syncRate = RateScale
  /\ hotCues = NoCues
  /\ isLoaded = FALSE /\ fileName = NoBuffer /\ bpm = DefaultBpm * BpmScale
  /\ isBpmAnalyzing = FALSE /\ audioBuffer = NoBuffer
  /\ activeFX = "NONE" /\ fxWet = 0
  /\ fxInputTo = {} /\ fxOutputFrom = {}
  /\ tapTimesRef = <<>> /\ wallClock = 0 /\ tapCount = 0
  /\ bpmInput = NoSignal /\ bpmResult = NoResult
  /\ crossfader = 0 /\ curve = "SMOOTH" /\ volA = 80 /\ volB = 80
  /\ gainARef = NoGainNode /\ gainBRef = NoGainNode
  /\ sourceNodeRef = NoSource
  /\ startTimeRef = 0 /\ pauseTimeRef = 0
  /\ lastPlaybackRateRef = RateScale
  /\ decoding = {} /\ detecting = {}
  /\ loadGen = 0
  /\ lastOp = Op("init")

\* ---------------------------------------------------------------- actions
rateVars == <<pitch, bend, syncRate, isReverse>>
fileVars == <<isLoaded, fileName, bpm, isBpmAnalyzing, audioBuffer>>
loadVars == <<decoding, detecting, loadGen>>
fxVars == <<activeFX, fxWet, fxInputTo, fxOutputFrom>>
tapVars == <<tapTimesRef, wallClock, tapCount>>
bpmVars == <<bpmInput, bpmResult>>
mixerVars == <<crossfader, curve, volA, volB, gainARef, gainBRef>>

\* audio time passes, up to a limit
Advance(limit) ==
  /\ now < limit
  /\ now' = now + 1
  /\ lastOp' = Op("tick")
  /\ UNCHANGED <<isPlaying, duration, sourceNodeRef, startTimeRef,
                 pauseTimeRef, lastPlaybackRateRef, currentTime, isLooping,
                 hotCues, rateVars, fileVars, loadVars, fxVars, tapVars,
                 mixerVars, bpmVars>>

Tick == Advance(MaxTime)

\* one animation frame of the time-update loop
UpdateLoop ==
  /\ currentTime' = Position
  /\ lastOp' = Op("updateLoop")
  /\ UNCHANGED <<now, isPlaying, duration, sourceNodeRef, startTimeRef,
                 pauseTimeRef, lastPlaybackRateRef, isLooping,
                 hotCues, rateVars, fileVars, loadVars, fxVars, tapVars,
                 mixerVars, bpmVars>>

Play ==
  /\ RateEffect(PlayFn(Refs), lastPlaybackRateRef, playbackRate, duration)
  /\ lastOp' = Op("play")
  /\ UNCHANGED <<now, currentTime, isLooping, hotCues, rateVars, fileVars,
                 loadVars, fxVars, tapVars,
                 mixerVars, bpmVars>>

Pause ==
  /\ RateEffect(PauseFn(Refs), lastPlaybackRateRef, playbackRate, duration)
  /\ lastOp' = Op("pause")
  /\ UNCHANGED <<now, currentTime, isLooping, hotCues, rateVars, fileVars,
                 loadVars, fxVars, tapVars,
                 mixerVars, bpmVars>>

Seek(time) ==
  /\ RateEffect(SeekFn(Refs, time), lastPlaybackRateRef, playbackRate,
                duration)
  /\ currentTime' = time
  /\ lastOp' = Op("seek")
  /\ UNCHANGED <<now, isLooping, hotCues, rateVars, fileVars, loadVars,
                 fxVars, tapVars,
                 mixerVars, bpmVars>>

\* the seek bar (p * duration, 0 <= p <= 1), the scrub surface (clamped to
\* [0, duration]) and the cue button (seek(0)) call seek
SeekCommand == \E time \in 0..duration : Seek(time)

\* setSpeed
SetPitch(v) ==
  /\ pitch' = v
  /\ RateEffect(Refs, lastPlaybackRateRef,
                RateOf(v, bend, syncRate, isReverse), duration)
  /\ lastOp' = Op("setPitch")
  /\ UNCHANGED <<now, currentTime, isLooping, hotCues, bend, syncRate,
                 isReverse, fileVars, loadVars, fxVars, tapVars,
                 mixerVars, bpmVars>>

\* setBendAmount
SetBend(v) ==
  /\ bend' = v
  /\ RateEffect(Refs, lastPlaybackRateRef,
                RateOf(pitch, v, syncRate, isReverse), duration)
  /\ lastOp' = Op("setBend")
  /\ UNCHANGED <<now, currentTime, isLooping, hotCues, pitch, syncRate,
                 isReverse, fileVars, loadVars, fxVars, tapVars,
                 mixerVars, bpmVars>>

ToggleReverse ==
  /\ isReverse' = ~isReverse
  /\ RateEffect(Refs, lastPlaybackRateRef,
                RateOf(pitch, bend, syncRate, ~isReverse), duration)
  /\ lastOp' = Op("toggleReverse")
  /\ UNCHANGED <<now, currentTime, isLooping, hotCues, pitch, bend, syncRate,
                 fileVars, loadVars, fxVars, tapVars,
                 mixerVars, bpmVars>>

ToggleLoop ==
  /\ isLooping' = ~isLooping
  /\ RateEffect(IF sourceNodeRef # NoSource
                  THEN [Refs EXCEPT !.src.loop = ~isLooping] ELSE Refs,
                lastPlaybackRateRef, playbackRate, duration)
  /\ lastOp' = Op("toggleLoop")
  /\ UNCHANGED <<now, currentTime, hotCues, rateVars, fileVars, loadVars,
                 fxVars, tapVars,
                 mixerVars, bpmVars>>

\* syncToBpm without the reset of the pitch
SyncToBpm_KeepsPitch(targetBpm) ==
  /\ IF bpm = 0
       THEN /\ UNCHANGED <<pitch, syncRate>>
            /\ RateEffect(Refs, lastPlaybackRateRef, playbackRate, duration)
       ELSE LET ratio == (targetBpm * BpmScale * RateScale) \div bpm
            IN /\ syncRate' = ratio
               /\ pitch' = pitch
               /\ RateEffect(Refs, lastPlaybackRateRef,
                             RateOf(pitch, bend, ratio, isReverse),
                             duration)
  /\ lastOp' = Op("syncToBpm")
  /\ UNCHANGED <<now, currentTime, isLooping, hotCues, bend, isReverse,
                 fileVars, loadVars, fxVars, tapVars,
                 mixerVars, bpmVars>>

\* syncToBpm(targetBpm), targetBpm in whole beats per minute
SyncToBpm(targetBpm) ==
  /\ IF bpm = 0
       THEN /\ UNCHANGED <<pitch, syncRate>>
            /\ RateEffect(Refs, lastPlaybackRateRef, playbackRate, duration)
       ELSE LET ratio == (targetBpm * BpmScale * RateScale) \div bpm
            IN /\ syncRate' = ratio
               /\ pitch' = RateScale
               /\ RateEffect(Refs, lastPlaybackRateRef,
                             RateOf(RateScale, bend, ratio, isReverse),
                             duration)
  /\ lastOp' = Op("syncToBpm")
  /\ UNCHANGED <<now, currentTime, isLooping, hotCues, bend, isReverse,
                 fileVars, loadVars, fxVars, tapVars,
                 mixerVars, bpmVars>>

TriggerHotCue(index) ==
  /\ IF hotCues[index] # NoCue
       THEN /\ RateEffect(SeekFn(Refs, hotCues[index]), lastPlaybackRateRef,
                          playbackRate, duration)
            /\ currentTime' = hotCues[index]
            /\ UNCHANGED hotCues
       ELSE /\ hotCues' = [hotCues EXCEPT ![index] = currentTime]
            /\ RateEffect(Refs, lastPlaybackRateRef, playbackRate, duration)
            /\ UNCHANGED currentTime
  /\ lastOp' = Op("triggerHotCue")
  /\ UNCHANGED <<now, isLooping, rateVars, fileVars, loadVars, fxVars, tapVars,
                 mixerVars, bpmVars>>

DeleteHotCue(index) ==
  /\ hotCues' = [hotCues EXCEPT ![index] = NoCue]
  /\ lastOp' = Op("deleteHotCue")
  /\ UNCHANGED <<now, isPlaying, duration, sourceNodeRef, startTimeRef,
                 pauseTimeRef, lastPlaybackRateRef, currentTime, isLooping,
                 rateVars, fileVars, loadVars, fxVars, tapVars,
                 mixerVars, bpmVars>>

\* the unit the send is routed to for an effect type
FxRoute(fx) ==
  CASE fx = "ECHO" -> {"delay"}
    [] fx = "REVERB" -> {"convolver"}
    [] fx = "FLANGER" -> {"flangerDelay"}
    [] OTHER -> {}

\* the routing effect without fxIn.disconnect()
SetActiveFX_NoDisconnect(fx) ==
  /\ activeFX' = fx
  /\ fxInputTo' = fxInputTo \cup FxRoute(fx)
  /\ fxOutputFrom' = fxOutputFrom \cup FxRoute(fx)
  /\ lastOp' = Op("setActiveFX")
  /\ UNCHANGED <<now, isPlaying, duration, sourceNodeRef, startTimeRef,
                 pauseTimeRef, lastPlaybackRateRef, currentTime, isLooping,
                 hotCues, rateVars, fileVars, loadVars, fxWet, tapVars,
                 mixerVars, bpmVars>>

\* setActiveFX and the routing effect on [activeFX]: fxIn.disconnect(), then
\* fxIn -> unit -> fxOut for the chosen unit
SetActiveFX(fx) ==
  /\ activeFX' = fx
  /\ IF fx = activeFX
       THEN UNCHANGED <<fxInputTo, fxOutputFrom>>
       ELSE /\ fxInputTo' = FxRoute(fx)
            /\ fxOutputFrom' = fxOutputFrom \cup FxRoute(fx)
  /\ lastOp' = Op("setActiveFX")
  /\ UNCHANGED <<now, isPlaying, duration, sourceNodeRef, startTimeRef,
                 pauseTimeRef, lastPlaybackRateRef, currentTime, isLooping,
                 hotCues, rateVars, fileVars, loadVars, fxWet, tapVars,
                 mixerVars, bpmVars>>

SetFxWet(v) ==
  /\ fxWet' = v
  /\ lastOp' = Op("setFxWet")
  /\ UNCHANGED <<now, isPlaying, duration, sourceNodeRef, startTimeRef,
                 pauseTimeRef, lastPlaybackRateRef, currentTime, isLooping,
                 hotCues, rateVars, fileVars, loadVars, activeFX, fxInputTo,
                 fxOutputFrom, tapVars, mixerVars, bpmVars>>

\* the intervals between consecutive tap times, summed
RECURSIVE SumIntervals(_)
SumIntervals(times) ==
  IF Len(times) < 2 THEN 0
  ELSE (times[2] - times[1]) + SumIntervals(Tail(times))

\* the mean taken over the taps instead of over the intervals
TapBpmOf_PerTap(times) ==
  LET sum == SumIntervals(times)
      n == Len(times)
  IN (2 * MsPerMinute * BpmScale * n + sum) \div (2 * sum)

\* Math.round((60000 / avgInterval) * 10) / 10 with avgInterval = sum / n,
\* in units of 1/BpmScale; Math.round rounds a half up
TapBpmOf(times) ==
  LET sum == SumIntervals(times)
      n == Len(times) - 1
  IN (2 * MsPerMinute * BpmScale * n + sum) \div (2 * sum)

\* tapBpm without the reset after an idle gap
TapBpm_NoIdleReset(gap) ==
  LET t == wallClock + gap
      pushed == Append(tapTimesRef, t)
      times == IF Len(pushed) > TapHistory THEN Tail(pushed) ELSE pushed
  IN /\ tapCount < MaxTaps
     /\ tapCount' = tapCount + 1
     /\ wallClock' = t
     /\ tapTimesRef' = times
     /\ bpm' = IF Len(times) >= 2 THEN TapBpmOf(times) ELSE bpm
     /\ lastOp' = Op("tapBpm")
     /\ UNCHANGED <<now, isPlaying, duration, sourceNodeRef, startTimeRef,
                    pauseTimeRef, lastPlaybackRateRef, currentTime,
                    isLooping, hotCues, rateVars, isLoaded, fileName,
                    isBpmAnalyzing, audioBuffer, loadVars, fxVars,
                    mixerVars, bpmVars>>

\* tapBpm(), called gap milliseconds after the previous tap
TapBpm(gap) ==
  LET t == wallClock + gap
      n == Len(tapTimesRef)
      pushed == Append(tapTimesRef, t)
      times == IF Len(pushed) > TapHistory THEN Tail(pushed) ELSE pushed
  IN /\ tapCount < MaxTaps
     /\ tapCount' = tapCount + 1
     /\ wallClock' = t
     /\ IF n > 0 /\ t - tapTimesRef[n] > TapResetMs
          THEN /\ tapTimesRef' = <<t>>
               /\ UNCHANGED bpm
          ELSE /\ tapTimesRef' = times
               /\ bpm' = IF Len(times) >= 2 THEN TapBpmOf(times) ELSE bpm
     /\ lastOp' = Op("tapBpm")
     /\ UNCHANGED <<now, isPlaying, duration, sourceNodeRef, startTimeRef,
                    pauseTimeRef, lastPlaybackRateRef, currentTime,
                    isLooping, hotCues, rateVars, isLoaded, fileName,
                    isBpmAnalyzing, audioBuffer, loadVars, fxVars,
                    mixerVars, bpmVars>>

\* loadFile up to its first await
LoadFile(file) ==
  /\ loadGen < MaxLoads
  /\ loadGen' = loadGen + 1
  /\ fileName' = file
  /\ bpm' = DefaultBpm * BpmScale
  /\ isBpmAnalyzing' = TRUE
  /\ decoding' = decoding \cup {[gen |-> loadGen + 1, file |-> file]}
  /\ RateEffect([Refs EXCEPT !.ip = FALSE], lastPlaybackRateRef,
                playbackRate, duration)
  /\ lastOp' = OpFrom("loadFile")
  /\ UNCHANGED <<now, currentTime, isLooping, hotCues, rateVars, isLoaded,
                 audioBuffer, detecting, fxVars, tapVars,
                 mixerVars, bpmVars>>

\* loadFile after decodeAudioData resolved, without setIsReverse(false)
DecodeOk_KeepsDirection(l) ==
  /\ l.file \in Decodable
  /\ decoding' = decoding \ {l}
  /\ audioBuffer' = l.file
  /\ isLoaded' = TRUE
  /\ currentTime' = 0
  /\ hotCues' = NoCues
  /\ syncRate' = RateScale
  /\ detecting' = detecting \cup {l}
  /\ RateEffect([Refs EXCEPT !.pt = 0], RateScale,
                RateOf(pitch, bend, RateScale, isReverse),
                TrackDuration[l.file])
  /\ lastOp' = OpFrom("decodeOk")
  /\ UNCHANGED <<now, isLooping, pitch, bend, isReverse, fileName, bpm,
                 isBpmAnalyzing, loadGen, fxVars, tapVars,
                 mixerVars, bpmVars>>

\* loadFile after decodeAudioData resolved
DecodeOk(l) ==
  /\ l.file \in Decodable
  /\ decoding' = decoding \ {l}
  /\ audioBuffer' = l.file
  /\ isLoaded' = TRUE
  /\ currentTime' = 0
  /\ hotCues' = NoCues
  /\ syncRate' = RateScale
  /\ isReverse' = FALSE
  /\ detecting' = detecting \cup {l}
  /\ RateEffect([Refs EXCEPT !.pt = 0], RateScale,
                RateOf(pitch, bend, RateScale, FALSE), TrackDuration[l.file])
  /\ lastOp' = OpFrom("decodeOk")
  /\ UNCHANGED <<now, isLooping, pitch, bend, fileName, bpm, isBpmAnalyzing,
                 loadGen, fxVars, tapVars,
                 mixerVars, bpmVars>>

\* loadFile after arrayBuffer / decodeAudioData rejected
DecodeFail(l) ==
  /\ l.file \notin Decodable
  /\ decoding' = decoding \ {l}
  /\ isBpmAnalyzing' = FALSE
  /\ lastOp' = Op("decodeFail")
  /\ UNCHANGED <<now, isPlaying, duration, sourceNodeRef, startTimeRef,
                 pauseTimeRef, lastPlaybackRateRef, currentTime, isLooping,
                 hotCues, rateVars, isLoaded, fileName, bpm, audioBuffer,
                 detecting, loadGen, fxVars, tapVars,
                 mixerVars, bpmVars>>

\* the then-callback of detectBpm(decodedBuffer)
DetectDone(d) ==
  /\ detecting' = detecting \ {d}
  /\ bpm' = DetectedBpm[d.file] * BpmScale
  /\ isBpmAnalyzing' = FALSE
  /\ lastOp' = Op("detectDone")
  /\ UNCHANGED <<now, isPlaying, duration, sourceNodeRef, startTimeRef,
                 pauseTimeRef, lastPlaybackRateRef, currentTime, isLooping,
                 hotCues, rateVars, isLoaded, fileName, audioBuffer,
                 decoding, loadGen, fxVars, tapVars,
                 mixerVars, bpmVars>>

\* ---------------------------------------------------------- specifications
\* The transport and its clock: one track, loaded and loaded again, played,
\* paused, sought, re-pitched and reversed while audio time passes.
LoadTrack == LoadFile("f1")
DecodeResolves == \E l \in decoding : DecodeOk(l)
SetPitchCommand == \E v \in PitchValues : SetPitch(v)

Next ==
  \/ Tick
  \/ Play
  \/ Pause
  \/ SeekCommand
  \/ SetPitchCommand
  \/ ToggleReverse
  \/ LoadTrack
  \/ DecodeResolves

Spec == Init /\ [][Next]_vars

\* The composition of the rate from its four factors, on a deck that plays.
SetBendCommand == \E v \in BendValues : SetBend(v)
SyncCommand == \E t \in TargetBpms : SyncToBpm(t)

NextRate ==
  \/ LoadTrack
  \/ DecodeResolves
  \/ Play
  \/ Pause
  \/ SetPitchCommand
  \/ SetBendCommand
  \/ SyncCommand
  \/ ToggleReverse

SpecRate == Init /\ [][NextRate]_vars

\* The life cycle of a load: files that decode and files that do not, the
\* BPM analysis that follows, and the commands that dirty the deck between
\* loads.
LoadAny == \E f \in Files : LoadFile(f)
DecodeRejects == \E l \in decoding : DecodeFail(l)
DetectResolves == \E d \in detecting : DetectDone(d)
HotCueCommand == \E i \in CueSlots : TriggerHotCue(i)

NextLoad ==
  \/ LoadAny
  \/ DecodeResolves
  \/ DecodeRejects
  \/ DetectResolves
  \/ Play
  \/ ToggleReverse
  \/ SyncCommand
  \/ HotCueCommand

SpecLoad == Init /\ [][NextLoad]_vars

\* ------------------------------------------------------------------ claims
\* C1: with a track loaded (duration > 0) the deck's position - the anchor
\* position when paused, the computed position when playing - satisfies
\* 0 <= position < duration in every reachable state.
C1_PositionInRange ==
  duration > 0 => (0 <= Position /\ Position < duration)

\* C2: play() on a deck paused at p, 0 <= p < duration, leaves the anchor
\* position at p and the position computed right after the transition
\* (re-anchor effect included, no time elapsed) is p.
C2_PlayResumesAtPausedPosition ==
  [][(/\ lastOp'.op = "play"
      /\ ~isPlaying /\ isPlaying'
      /\ 0 <= pauseTimeRef /\ pauseTimeRef < duration)
     => (Position' = pauseTimeRef /\ pauseTimeRef' = pauseTimeRef)]_vars

\* C3: seek(t) with 0 <= t < duration leaves the playing flag as it was and
\* the position computed right afterwards is t, paused or playing.
C3_SeekLandsOnTarget ==
  [][(lastOp'.op = "seek" /\ 0 <= currentTime' /\ currentTime' < duration)
     => (isPlaying' = isPlaying /\ Position' = currentTime')]_vars

\* C4: when a rate factor changes the composed rate of a playing deck, the
\* clock re-anchors with the previous rate: the anchor position becomes the
\* position computed just before the change, the anchor time becomes the
\* time of the change, the position does not jump, and the source runs at
\* the new rate from then on.
C4_RateChangeReanchors ==
  [][(/\ lastOp'.op \in {"setPitch", "setBend", "syncToBpm", "toggleReverse"}
      /\ isPlaying /\ isPlaying'
      /\ playbackRate' # playbackRate)
     => (/\ pauseTimeRef' = Position
         /\ startTimeRef' = now
         /\ Position' = Position
         /\ sourceNodeRef'.rate = playbackRate')]_vars

\* C10: play() on a playing deck and pause() on a paused deck change neither
\* the playing flag, nor the anchor position, nor the anchor time, nor the
\* computed position.
C10_RepeatedCommandIsNoOp ==
  [][(\/ (lastOp'.op = "play" /\ isPlaying)
      \/ (lastOp'.op = "pause" /\ ~isPlaying))
     => (/\ isPlaying' = isPlaying
         /\ pauseTimeRef' = pauseTimeRef
         /\ startTimeRef' = startTimeRef
         /\ Position' = Position)]_vars

\* C5: the composed rate a playing source runs at is
\* (pitch + bend + (syncRate - 1)) * (reverse ? -1 : 1) in every state, and
\* toggleReverse() negates the composed rate and leaves pitch, bend and
\* syncRate as they were.
C5_RateComposition ==
  [][/\ (isPlaying' /\ sourceNodeRef' # NoSource)
          => sourceNodeRef'.rate =
               (pitch' + bend' + (syncRate' - RateScale))
                 * (IF isReverse' THEN -1 ELSE 1)
     /\ lastOp'.op = "toggleReverse"
          => (/\ playbackRate' = 0 - playbackRate
              /\ playbackRate' =
                   (pitch + bend + (syncRate - RateScale))
                     * (IF isReverse THEN 1 ELSE -1)
              /\ pitch' = pitch /\ bend' = bend /\ syncRate' = syncRate)
    ]_vars

\* C5 witness: reverse was toggled on a playing deck whose pitch, bend and
\* sync ratio are all away from their defaults.
C5_Witness ==
  /\ lastOp.op = "toggleReverse"
  /\ isPlaying /\ isReverse
  /\ pitch # RateScale /\ bend # 0 /\ syncRate # RateScale

\* C6: right after a load that decoded, all hot-cue slots are unset,
\* syncRate is 1 and reverse is false, whatever they were before.
C6_LoadResetsCuesSyncReverse ==
  lastOp.op = "decodeOk"
    => (hotCues = NoCues /\ syncRate = RateScale /\ ~isReverse)

\* C6 witness: a load completed on a deck that had a cue set, was synced and
\* ran in reverse.
C6_Witness ==
  /\ lastOp.op = "decodeOk"
  /\ lastOp.pre.hotCues # NoCues
  /\ lastOp.pre.syncRate # RateScale
  /\ lastOp.pre.isReverse

\* C7: right after a load that decoded, the deck is paused at position 0
\* with pitch 1, bend 0, syncRate 1, reverse off, looping off, no hot cue,
\* no active effect and wet 0.
C7_LoadResetsEveryField ==
  lastOp.op = "decodeOk"
    => (/\ ~isPlaying
        /\ Position = 0
        /\ pitch = RateScale /\ bend = 0 /\ syncRate = RateScale
        /\ ~isReverse /\ ~isLooping
        /\ hotCues = NoCues
        /\ activeFX = "NONE" /\ fxWet = 0)

\* C8: when a load fails to decode, the playing flag, the loaded track and
\* its duration, the file name, the bpm, the position and the hot cues are
\* what they were before the load was issued (the failure follows the load
\* with no other command in between).
C8_FailedLoadRestoresState ==
  [][(/\ lastOp.op = "loadFile"
      /\ lastOp'.op = "decodeFail"
      /\ Cardinality(decoding) = 1)
     => (/\ isPlaying' = lastOp.pre.isPlaying
         /\ audioBuffer' = lastOp.pre.audioBuffer
         /\ duration' = lastOp.pre.duration
         /\ fileName' = lastOp.pre.fileName
         /\ bpm' = lastOp.pre.bpm
         /\ Position' = lastOp.pre.position
         /\ hotCues' = lastOp.pre.hotCues)]_vars

\* C9: the completion of the BPM analysis of a load that a later load has
\* superseded changes neither bpm nor the analyzing flag.
C9_SupersededAnalysisIgnored ==
  [][\A d \in detecting :
       (lastOp'.op = "detectDone" /\ d \notin detecting' /\ d.gen < loadGen)
         => (bpm' = bpm /\ isBpmAnalyzing' = isBpmAnalyzing)]_vars

NextEnd ==
  \/ Tick
  \/ Play
  \/ Pause
  \/ ToggleLoop
  \/ ToggleReverse
  \/ SetPitchCommand
  \/ LoadTrack
  \/ DecodeResolves

SpecEnd == Init /\ [][NextEnd]_vars

\* calculatedTime of updateLoop before it is normalized
RawPosition == pauseTimeRef + Mul(now - startTimeRef, playbackRate)

\* the computed position is at or past the end the deck is playing towards
ReachedEnd ==
  \/ playbackRate > 0 /\ RawPosition >= duration
  \/ playbackRate < 0 /\ RawPosition <= 0

\* C12: when time passes on a playing deck and the computed position reaches
\* the end of the track (0 in reverse), a deck without the loop flag stops
\* (the playing flag is false) and its position has not wrapped around; a
\* deck with the loop flag keeps playing at the wrapped position.
C12_StopsAtEndUnlessLooping ==
  [][(lastOp'.op = "tick" /\ isPlaying /\ duration > 0 /\ ReachedEnd')
       => IF isLooping
            THEN isPlaying' /\ Position' = Normalize(RawPosition', duration)
            ELSE /\ ~isPlaying'
                 /\ playbackRate > 0 => Position' >= Position
                 /\ playbackRate < 0 => Position' <= Position]_vars

\* ------------------------------------------------------------------ hot cues
DeleteCueCommand == \E i \in CueSlots : DeleteHotCue(i)

\* the cue buttons used while the deck plays, pauses and redraws
NextCue ==
  \/ Tick
  \/ UpdateLoop
  \/ Play
  \/ Pause
  \/ HotCueCommand
  \/ DeleteCueCommand
  \/ LoadTrack
  \/ DecodeResolves

SpecCue == Init /\ [][NextCue]_vars

\* C13: the number of cue slots is fixed and a cue command changes at most
\* one slot.  triggerHotCue on an unset slot stores the position the deck
\* reports in that slot and does not move the deck; triggerHotCue on a set
\* slot puts the deck exactly at the stored value, paused or playing, and
\* leaves the slot set; deleteHotCue unsets its slot.
C13_HotCueContract ==
  [][/\ DOMAIN hotCues' = CueSlots
     /\ lastOp'.op \in {"triggerHotCue", "deleteHotCue"}
          => \A i, j \in CueSlots :
               (hotCues'[i] # hotCues[i] /\ hotCues'[j] # hotCues[j])
                 => i = j
     /\ lastOp'.op = "triggerHotCue"
          => \E i \in CueSlots :
               IF hotCues[i] = NoCue
                 THEN /\ hotCues' = [hotCues EXCEPT ![i] = currentTime]
                      /\ Position' = Position
                      /\ isPlaying' = isPlaying
                 ELSE /\ hotCues' = hotCues
                      /\ Position' = hotCues[i]
                      /\ isPlaying' = isPlaying
     /\ lastOp'.op = "deleteHotCue"
          => \E i \in CueSlots : hotCues' = [hotCues EXCEPT ![i] = NoCue]
    ]_vars

\* ---------------------------------------------------------------- tap tempo
\* the TAP button
TapCommand == \E gap \in TapGaps : TapBpm(gap)

\* taps on a deck whose track is loaded and analysed meanwhile
NextTap ==
  \/ TapCommand
  \/ LoadTrack
  \/ DecodeResolves
  \/ DetectResolves

SpecTap == Init /\ [][NextTap]_vars

\* the last n elements of a sequence
LastTaps(seq, n) ==
  IF Len(seq) <= n THEN seq
  ELSE [i \in 1..n |-> seq[Len(seq) - n + i]]

\* C14: the tap buffer never holds more than 4 timestamps; a tap that is
\* not a reset leaves the most recent (up to 4) timestamps buffered, and when
\* at least 2 are buffered the bpm is 60000 / mean(interval) rounded to one
\* decimal: with k intervals spanning S ms, |bpm - 60000 * k / S| is at most
\* 0.05 (half up); 4 taps 500 ms apart give 120.0.
C14_TapTempo ==
  [][lastOp'.op = "tapBpm"
       => /\ Len(tapTimesRef') <= 4
          /\ Len(tapTimesRef') >= 2
               => LET taps == tapTimesRef'
                      k == Len(taps) - 1
                      S == taps[Len(taps)] - taps[1]
                  IN /\ taps = LastTaps(Append(tapTimesRef, wallClock'), 4)
                     /\ 2 * bpm' * S <= 2 * 600000 * k + S
                     /\ 2 * bpm' * S > 2 * 600000 * k - S
          /\ (/\ Len(tapTimesRef') = 4
              /\ \A i \in 1..3 : tapTimesRef'[i + 1] - tapTimesRef'[i] = 500)
               => bpm' = 1200]_vars

\* four taps 500 ms apart, the oldest of five dropped, bpm 120.0
C14_Witness ==
  /\ lastOp.op = "tapBpm"
  /\ tapCount = 5
  /\ Len(tapTimesRef) = 4
  /\ \A i \in 1..3 : tapTimesRef[i + 1] - tapTimesRef[i] = 500
  /\ bpm = 1200

\* C15: a tap more than 2000 ms after the previous one leaves only itself in
\* the buffer and does not change the bpm; the tap after it (within 2000 ms)
\* buffers 2 taps and sets the bpm from the one interval between them.
C15_IdleGapResetsTaps ==
  [][lastOp'.op = "tapBpm" /\ Len(tapTimesRef) > 0
       => LET gap == wallClock' - tapTimesRef[Len(tapTimesRef)]
          IN /\ gap > 2000
                  => tapTimesRef' = <<wallClock'>> /\ bpm' = bpm
             /\ (gap <= 2000 /\ Len(tapTimesRef) = 1)
                  => /\ tapTimesRef' = <<tapTimesRef[1], wallClock'>>
                     /\ 2 * bpm' * gap <= 2 * 600000 + gap
                     /\ 2 * bpm' * gap > 2 * 600000 - gap]_vars

\* four taps 400 to 500 ms apart, a fifth tap after 3000 ms reset the buffer,
\* and the sixth tap 500 ms later set 120.0 from its single interval
C15_Witness ==
  /\ lastOp.op = "tapBpm"
  /\ tapCount = 6
  /\ Len(tapTimesRef) = 2
  /\ tapTimesRef[1] = 400 + 500 + 400 + 400 + 3000
  /\ tapTimesRef[2] - tapTimesRef[1] = 500
  /\ bpm = 1200

\* --------------------------------------------------------------- tempo sync
\* C16: on a deck whose bpm is not 0, syncToBpm(target) sets syncRate to
\* target / bpm (to the resolution of the rate) and pitch to 1 and leaves
\* bpm, bend and the direction alone; with bend 0 and forward direction the
\* composed rate, and the rate of a playing source, is syncRate.  Target 140
\* on bpm 128.0 gives 1.09375.
C16_SyncSetsRatio ==
  [][(lastOp'.op = "syncToBpm" /\ bpm # 0)
       => /\ \E t \in TargetBpms :
               /\ syncRate' * bpm <= t * 10 * 100000
               /\ t * 10 * 100000 < (syncRate' + 1) * bpm
               /\ (t = 140 /\ bpm = 1280) => syncRate' = 109375
          /\ pitch' = 100000
          /\ bpm' = bpm /\ bend' = bend /\ isReverse' = isReverse
          /\ (bend = 0 /\ ~isReverse)
               => /\ playbackRate' = syncRate'
                  /\ isPlaying' => sourceNodeRef'.rate = syncRate']_vars

\* sync to 140 pressed on a playing forward deck of bpm 128.0
C16_Witness ==
  /\ lastOp.op = "syncToBpm"
  /\ bpm = 1280
  /\ isPlaying /\ ~isReverse /\ bend = 0
  /\ pitch = RateScale
  /\ syncRate = 109375
  /\ sourceNodeRef.rate = 109375

\* -------------------------------------------------------------------- mixer
\* The crossfader stage of the Mixer component.  Its first render sees no
\* audio context (the decks create theirs in an effect), so the channel gain
\* nodes are created by the routing effect of the first later render.
XScale == 200
MixerControls == {"setCrossfader", "setVolA", "setVolB", "setCurve"}

\* x = (crossfader + 1) / 2, in units of 1/XScale
XOf(cf) == cf + 100

\* a new GainNode has gain 1
DefaultGain == 100 * GainScale

Min(a, b) == IF a < b THEN a ELSE b

\* Math.cos(x * 0.5 * Math.PI) to four decimals, x in units of 1/XScale, at
\* the positions of CrossfaderValues
CosQuarter(x) ==
  CASE x = 0 -> 10000
    [] x = 4 -> 9995
    [] x = 8 -> 9980
    [] x = 50 -> 9239
    [] x = 100 -> 7071
    [] x = 150 -> 3827
    [] x = 192 -> 628
    [] x = 196 -> 314
    [] x = 200 -> 0

\* linear fade with both channels on the same ramp
LinearGains_SameRamp(x) ==
  [a |-> (x * GainScale) \div XScale, b |-> (x * GainScale) \div XScale]

\* case 'LINEAR'
LinearGains(x) ==
  [a |-> ((XScale - x) * GainScale) \div XScale,
   b |-> (x * GainScale) \div XScale]

\* case 'CUT'
CutGains(x) ==
  [a |-> Min(GainScale, ((XScale - x) * CutSlope * GainScale) \div XScale),
   b |-> Min(GainScale, (x * CutSlope * GainScale) \div XScale)]

\* cosine fade with the two channels exchanged
SmoothGains_Exchanged(x) ==
  [a |-> CosQuarter(XScale - x), b |-> CosQuarter(x)]

\* case 'SMOOTH' and default
SmoothGains(x) ==
  [a |-> CosQuarter(x), b |-> CosQuarter(XScale - x)]

\* the switch on curve
CurveGains(cv, x) ==
  CASE cv = "LINEAR" -> LinearGains(x)
    [] cv = "CUT" -> CutGains(x)
    [] OTHER -> SmoothGains(x)

\* The effects of one render with crossfader cf, curve cv and volumes va,
\* vb: the routing effect creates the missing channel gain nodes; the
\* crossfader effect runs when one of its dependencies changed and then sets
\* both targets.
MixerEffects(cf, cv, va, vb) ==
  LET runs == cf # crossfader \/ cv # curve \/ va # volA \/ vb # volB
      g == CurveGains(cv, XOf(cf))
  IN /\ gainARef' = IF runs THEN va * g.a
                    ELSE IF gainARef = NoGainNode THEN DefaultGain
                    ELSE gainARef
     /\ gainBRef' = IF runs THEN vb * g.b
                    ELSE IF gainBRef = NoGainNode THEN DefaultGain
                    ELSE gainBRef

deckVars == <<now, isPlaying, isLooping, isReverse, duration, currentTime,
              pitch, bend, syncRate, hotCues, fileVars, sourceNodeRef,
              startTimeRef, pauseTimeRef, lastPlaybackRateRef, loadVars,
              fxVars, tapVars, bpmVars>>

\* a render caused by state outside the crossfader effect's dependencies (a
\* deck's file name, an EQ knob, a frame of a playing deck)
MixerRender ==
  /\ MixerEffects(crossfader, curve, volA, volB)
  /\ lastOp' = Op("mixerRender")
  /\ UNCHANGED <<crossfader, curve, volA, volB, deckVars>>

SetCrossfader(v) ==
  /\ v # crossfader
  /\ crossfader' = v
  /\ MixerEffects(v, curve, volA, volB)
  /\ lastOp' = Op("setCrossfader")
  /\ UNCHANGED <<curve, volA, volB, deckVars>>

SetVolA(v) ==
  /\ v # volA
  /\ volA' = v
  /\ MixerEffects(crossfader, curve, v, volB)
  /\ lastOp' = Op("setVolA")
  /\ UNCHANGED <<crossfader, curve, volB, deckVars>>

SetVolB(v) ==
  /\ v # volB
  /\ volB' = v
  /\ MixerEffects(crossfader, curve, volA, v)
  /\ lastOp' = Op("setVolB")
  /\ UNCHANGED <<crossfader, curve, volA, deckVars>>

SetCurve(cv) ==
  /\ cv # curve
  /\ curve' = cv
  /\ MixerEffects(crossfader, cv, volA, volB)
  /\ lastOp' = Op("setCurve")
  /\ UNCHANGED <<crossfader, volA, volB, deckVars>>

CrossfaderCommand == \E v \in CrossfaderValues : SetCrossfader(v)
VolACommand == \E v \in VolValues : SetVolA(v)
VolBCommand == \E v \in VolValues : SetVolB(v)
CurveCommand == \E cv \in Curves : SetCurve(cv)

NextMixer ==
  \/ MixerRender
  \/ CrossfaderCommand
  \/ VolACommand
  \/ VolBCommand
  \/ CurveCommand

SpecMixer == Init /\ [][NextMixer]_vars

\* C17: whenever the two channel gain nodes exist, the target gain of
\* channel A is volA * gA and that of channel B is volB * gB, with gA and gB
\* taken from the current crossfader position and curve.
C17_ChannelGainsFollowControls ==
  (gainARef # NoGainNode /\ gainBRef # NoGainNode)
    => /\ gainARef = volA * CurveGains(curve, XOf(crossfader)).a
       /\ gainBRef = volB * CurveGains(curve, XOf(crossfader)).b

\* C18: after a change of a mixer control, with x = (crossfader + 1) / 2: on
\* the linear curve the targets are volA * (1 - x) and volB * x, so the two
\* curve gains add up to 1; on the cut curve they are volA * min(1, (1 - x)
\* * 25) and volB * min(1, x * 25), so both curve gains are 1 for x in
\* [0.04, 0.96] and a curve gain is 0 only at the opposite end.
C18_LinearAndCutCurves ==
  lastOp.op \in MixerControls
    => LET x == crossfader + 100
       IN /\ curve = "LINEAR"
               => /\ 200 * gainARef = volA * (200 - x) * 10000
                  /\ 200 * gainBRef = volB * x * 10000
                  /\ (volA = 100 /\ volB = 100)
                       => gainARef + gainBRef = 1000000
          /\ curve = "CUT"
               => /\ gainARef = volA * (IF (200 - x) * 25 >= 200 THEN 10000
                                        ELSE ((200 - x) * 25 * 10000) \div 200)
                  /\ gainBRef = volB * (IF x * 25 >= 200 THEN 10000
                                        ELSE (x * 25 * 10000) \div 200)
                  /\ (8 <= x /\ x <= 192)
                       => gainARef = volA * 10000 /\ gainBRef = volB * 10000
                  /\ volA # 0 => (gainARef = 0 <=> x = 200)
                  /\ volB # 0 => (gainBRef = 0 <=> x = 0)

\* the cut curve at x = 0.04 with both volumes full: both channels at 1
C18_Witness ==
  /\ lastOp.op = "setCrossfader"
  /\ curve = "CUT"
  /\ crossfader = -92
  /\ volA = 100 /\ volB = 100
  /\ gainARef = 1000000 /\ gainBRef = 1000000

\* C19: the curve selected at start-up is the constant-power one; after a
\* change of a mixer control on that curve, the centre position gives both
\* channels the curve gain cos(pi/4) = 0.7071 and the position -1 gives
\* channel A the curve gain 1 and channel B the curve gain 0.
C19_ConstantPowerCurve ==
  /\ lastOp.op = "init" => curve = "SMOOTH"
  /\ (lastOp.op \in MixerControls /\ curve = "SMOOTH")
       => /\ crossfader = 0
               => gainARef = volA * 7071 /\ gainBRef = volB * 7071
          /\ crossfader = -100
               => gainARef = volA * 10000 /\ gainBRef = 0

\* the crossfader brought back to the centre on the constant-power curve
C19_Witness ==
  /\ lastOp.op = "setCrossfader"
  /\ curve = "SMOOTH"
  /\ crossfader = 0
  /\ volA = 100 /\ volB = 80
  /\ gainARef = 707100 /\ gainBRef = 565680

\* ------------------------------------------------------------- effect send
WetCommand == \E v \in WetValues : SetFxWet(v)
FxCommand == \E fx \in FXTypes : SetActiveFX(fx)

\* the effect buttons used on a deck that loads and plays
NextFx ==
  \/ FxCommand
  \/ WetCommand
  \/ LoadTrack
  \/ DecodeResolves
  \/ Play
  \/ Pause

SpecFx == Init /\ [][NextFx]_vars

\* C20: the effect send feeds the unit of the active effect and nothing
\* else: the delay for ECHO, the convolver for REVERB, the flanger delay for
\* FLANGER, no unit for NONE; it never feeds two units.
C20_SendFeedsActiveUnitOnly ==
  /\ Cardinality(fxInputTo) <= 1
  /\ activeFX = "NONE" => fxInputTo = {}
  /\ activeFX = "ECHO" => fxInputTo = {"delay"}
  /\ activeFX = "REVERB" => fxInputTo = {"convolver"}
  /\ activeFX = "FLANGER" => fxInputTo = {"flangerDelay"}

\* the reverb selected after the echo and the flanger had been active
C20_Witness ==
  /\ lastOp.op = "setActiveFX"
  /\ activeFX = "REVERB"
  /\ fxOutputFrom = FxUnits
  /\ fxInputTo = {"convolver"}

\* ------------------------------------------------------- reverse round trip
\* audio time passes, over a span long enough for a round trip at half speed
TripTick == Advance(MaxTripTime)

NextTrip ==
  \/ TripTick
  \/ ToggleReverse
  \/ Play
  \/ SetPitchCommand
  \/ LoadTrack
  \/ DecodeResolves

SpecTrip == Init /\ [][NextTrip]_vars

\* the round trip recorded in lastOp is complete
TripDone == lastOp.trip.phase = 2 /\ lastOp.trip.left = 0

\* the legs of the trip cover a whole number of position units
TripExact == (lastOp.trip.d * lastOp.trip.r) % RateScale = 0

\* C21: a playing deck at position p whose direction is toggled, left alone
\* for a time d, toggled again and left alone for the same time d, is at
\* position p again, also when the reverse leg wrapped below 0.
C21_ReverseRoundTrip ==
  (TripDone /\ TripExact) => Position = lastOp.trip.p

\* ------------------------------------------------ the clock's normalization
\* A deck that plays a loaded track from any anchor position at any pitch in
\* either direction (the state a re-anchor at time 0 leaves), and the deck
\* without a track.
InitClock ==
  \/ Init
  \/ \E f \in Decodable, v \in PitchValues, rev \in BOOLEAN :
     \E p0 \in 0..(TrackDuration[f] - 1) :
       /\ now = 0
       /\ isPlaying = TRUE /\ isLooping = FALSE /\ isReverse = rev
       /\ duration = TrackDuration[f] /\ currentTime = p0
       /\ pitch = v /\ bend = 0 /\ syncRate = RateScale
       /\ hotCues = NoCues
       /\ isLoaded = TRUE /\ fileName = f /\ bpm = DetectedBpm[f] * BpmScale
       /\ isBpmAnalyzing = FALSE /\ audioBuffer = f
       /\ activeFX = "NONE" /\ fxWet = 0
       /\ fxInputTo = {} /\ fxOutputFrom = {}
       /\ tapTimesRef = <<>> /\ wallClock = 0 /\ tapCount = 0
       /\ bpmInput = NoSignal /\ bpmResult = NoResult
       /\ crossfader = 0 /\ curve = "SMOOTH" /\ volA = 80 /\ volB = 80
       /\ gainARef = NoGainNode /\ gainBRef = NoGainNode
       /\ sourceNodeRef = [buffer |-> f, rate |-> RateOf(v, 0, RateScale, rev),
                           loop |-> FALSE]
       /\ startTimeRef = 0 /\ pauseTimeRef = p0
       /\ lastPlaybackRateRef = RateOf(v, 0, RateScale, rev)
       /\ decoding = {} /\ detecting = {}
       /\ loadGen = 1
       /\ lastOp = [op |-> "init", pre |-> NoSnapshot, trip |-> NoTrip]

\* time passes and the three places that normalize run: the frame loop, the
\* re-anchor of a rate change, and pause
NextClock ==
  \/ TripTick
  \/ UpdateLoop
  \/ SetPitchCommand
  \/ ToggleReverse
  \/ Pause

SpecClock == InitClock /\ [][NextClock]_vars

\* C22: with a duration above 0 the normalized position, the re-anchored
\* anchor position and the position shown are all in [0, duration), however
\* often the clock advances and re-anchors; with duration 0 the position is
\* the anchor position as it is.
C22_NormalizedPositionInRange ==
  /\ duration > 0
       => /\ 0 <= Position /\ Position < duration
          /\ 0 <= pauseTimeRef /\ pauseTimeRef < duration
          /\ 0 <= currentTime /\ currentTime < duration
  /\ duration = 0 => Position = pauseTimeRef

\* a reverse deck on the track of length 2, re-anchored by a pitch change
\* after 5 units of time (more than a track length of travel below 0)
C22_Witness ==
  /\ lastOp.op = "setPitch"
  /\ isPlaying /\ isReverse /\ duration = 2
  /\ now = 5 /\ startTimeRef = 5
  /\ pitch = 50000
  /\ lastOp.trip = NoTrip
  /\ pauseTimeRef = 1

\* ------------------------------------------------------- detectBpm (bpm.ts)
\* The analysed buffer is held as what startRendering hands back: the number
\* of samples of the slice, the sample rate, whether rendering succeeded, and
\* the samples that are not zero as a sequence of [at, amp] in ascending
\* position (amp in hundredths); every other sample is 0.
MaxPulses == 12

FallbackBpm == 128
AmpStride == 1000
ThresholdPct == 35
MinPeaks == 10
IntervalBin == 500
SecondsPerMinute == 60
SliceSeconds == 30
LowBpm == 70
HighBpm == 180

SampleRates == {44100, 48000}
PulseGaps == {9000, 13500, 22050, 44100, 88200}
PulseOffsets == {0, 500}

Abs(x) == IF x < 0 THEN 0 - x ELSE x

\* n pulses gap samples apart starting at first; with weak set every second
\* pulse is a quarter as loud
Train(n, first, gap, weak) ==
  [k \in 1..n |-> [at |-> first + (k - 1) * gap,
                   amp |-> IF weak /\ k % 2 = 0 THEN 25 ELSE 100]]

Signals ==
  {[length |-> IF n = 0 THEN len ELSE SliceSeconds * sr, sampleRate |-> sr,
    renders |-> ok, pulses |-> Train(n, first, gap, weak)] :
     n \in 0..MaxPulses, sr \in SampleRates, gap \in PulseGaps,
     first \in PulseOffsets, weak \in BOOLEAN, ok \in BOOLEAN,
     len \in {0, SliceSeconds}}

\* the loop over every 1000th sample
RECURSIVE MaxAmpOf(_)
MaxAmpOf(pulses) ==
  IF pulses = <<>> THEN 0
  ELSE LET rest == MaxAmpOf(Tail(pulses))
           a == Abs(Head(pulses).amp)
       IN IF Head(pulses).at % AmpStride = 0 /\ a > rest THEN a ELSE rest

\* 0.3 * sampleRate
MinDistance(sampleRate) == (3 * sampleRate) \div 10

\* the loop over the samples: a sample above the threshold is a peak when it
\* lies more than minDistance after the last peak
RECURSIVE PickPeaks(_, _, _, _)
PickPeaks(pulses, maxAmp, minDistance, lastPeak) ==
  IF pulses = <<>> THEN <<>>
  ELSE LET s == Head(pulses)
       IN IF s.amp * 100 > maxAmp * ThresholdPct /\ s.at - lastPeak > minDistance
            THEN <<s.at>> \o PickPeaks(Tail(pulses), maxAmp, minDistance, s.at)
            ELSE PickPeaks(Tail(pulses), maxAmp, minDistance, lastPeak)

PeaksOf(sig) ==
  LET minDistance == MinDistance(sig.sampleRate)
  IN PickPeaks(sig.pulses, MaxAmpOf(sig.pulses), minDistance, 0 - minDistance)

\* Math.round(interval / 500) * 500 of each interval between peaks
RoundedIntervals(peaks) ==
  [i \in 1..(Len(peaks) - 1) |->
     ((2 * (peaks[i + 1] - peaks[i]) + IntervalBin) \div (2 * IntervalBin))
       * IntervalBin]

\* the histogram scan: Object.entries lists whole-number keys in ascending
\* order and only a strictly larger count replaces the best so far
BestInterval(rounded) ==
  LET keys == {rounded[i] : i \in DOMAIN rounded}
      count(k) == Cardinality({i \in DOMAIN rounded : rounded[i] = k})
  IN IF keys = {} THEN 0
     ELSE CHOOSE k \in keys : \A j \in keys :
            count(k) > count(j) \/ (count(k) = count(j) /\ k <= j)

RECURSIVE DoubleWhileLow(_, _)
\* the first loop doubling once only
DoubleWhileLow_Once(num, den) ==
  IF num < LowBpm * den THEN [num |-> 2 * num, den |-> den]
  ELSE [num |-> num, den |-> den]

\* while (bpm < 70) bpm *= 2, bpm held as the fraction num / den
DoubleWhileLow(num, den) ==
  IF num < LowBpm * den THEN DoubleWhileLow(2 * num, den)
  ELSE [num |-> num, den |-> den]

\* while (bpm > 180) bpm /= 2
RECURSIVE HalveWhileHigh(_, _)
HalveWhileHigh(num, den) ==
  IF num > HighBpm * den THEN HalveWhileHigh(num, 2 * den)
  ELSE [num |-> num, den |-> den]

\* Math.round of a positive fraction
RoundFraction(f) == (2 * f.num + f.den) \div (2 * f.den)

\* the tempo of the dominant interval, folded into the range and rounded
TempoOf(bestInterval, sampleRate) ==
  LET low == DoubleWhileLow(SecondsPerMinute * sampleRate, bestInterval)
  IN RoundFraction(HalveWhileHigh(low.num, low.den))

\* detectBpm answering from any two peaks
DetectBpm_NoPeakFloor(sig) ==
  IF sig.length = 0 \/ ~sig.renders THEN FallbackBpm
  ELSE LET peaks == PeaksOf(sig)
           bestInterval == BestInterval(RoundedIntervals(peaks))
       IN IF Len(peaks) < 2 THEN FallbackBpm
          ELSE IF bestInterval = 0 THEN FallbackBpm
          ELSE TempoOf(bestInterval, sig.sampleRate)

\* detectBpm(buffer): an OfflineAudioContext of length 0 cannot be built and
\* a rejected rendering throws; both end in the catch
DetectBpm(sig) ==
  IF sig.length = 0 \/ ~sig.renders THEN FallbackBpm
  ELSE LET peaks == PeaksOf(sig)
           bestInterval == BestInterval(RoundedIntervals(peaks))
       IN IF Len(peaks) < MinPeaks THEN FallbackBpm
          ELSE IF bestInterval = 0 THEN FallbackBpm
          ELSE TempoOf(bestInterval, sig.sampleRate)

\* the call of detectBpm on the buffer at hand
AnalyseBpm ==
  /\ bpmResult = NoResult
  /\ bpmResult' = DetectBpm(bpmInput)
  /\ lastOp' = Op("detectBpm")
  /\ UNCHANGED <<bpmInput, now, isPlaying, isLooping, isReverse, duration,
                 currentTime, pitch, bend, syncRate, hotCues, fileVars,
                 sourceNodeRef, startTimeRef, pauseTimeRef,
                 lastPlaybackRateRef, loadVars, fxVars, tapVars, mixerVars>>

\* a deck that has not loaded anything, with a buffer about to be analysed
InitBpm ==
  \E sig \in Signals :
    /\ now = 0
    /\ isPlaying = FALSE /\ isLooping = FALSE /\ isReverse = FALSE
    /\ duration = 0 /\ currentTime = 0
    /\ pitch = RateScale /\ bend = 0 /\ syncRate = RateScale
    /\ hotCues = NoCues
    /\ isLoaded = FALSE /\ fileName = NoBuffer /\ bpm = DefaultBpm * BpmScale
    /\ isBpmAnalyzing = FALSE /\ audioBuffer = NoBuffer
    /\ activeFX = "NONE" /\ fxWet = 0
    /\ fxInputTo = {} /\ fxOutputFrom = {}
    /\ tapTimesRef = <<>> /\ wallClock = 0 /\ tapCount = 0
    /\ bpmInput = sig /\ bpmResult = NoResult
    /\ crossfader = 0 /\ curve = "SMOOTH" /\ volA = 80 /\ volB = 80
    /\ gainARef = NoGainNode /\ gainBRef = NoGainNode
    /\ sourceNodeRef = NoSource
    /\ startTimeRef = 0 /\ pauseTimeRef = 0
    /\ lastPlaybackRateRef = RateScale
    /\ decoding = {} /\ detecting = {}
    /\ loadGen = 0
    /\ lastOp = [op |-> "init", pre |-> NoSnapshot, trip |-> NoTrip]

NextBpm == AnalyseBpm

SpecBpm == InitBpm /\ [][NextBpm]_vars

\* C23: a buffer in which fewer than 10 peaks are found is given the tempo
\* 128, and so is a buffer of silence and an empty buffer
C23_FewPeaksGive128 ==
  lastOp.op = "detectBpm" =>
    /\ Len(PeaksOf(bpmInput)) < MinPeaks => bpmResult = FallbackBpm
    /\ Len(bpmInput.pulses) < MinPeaks => bpmResult = FallbackBpm
    /\ bpmInput.pulses = <<>> => bpmResult = FallbackBpm
    /\ bpmInput.length = 0 => bpmResult = FallbackBpm

\* nine equally loud pulses a half second apart, rendered and analysed
C23_Witness ==
  /\ lastOp.op = "detectBpm"
  /\ bpmInput.renders /\ bpmInput.sampleRate = 44100
  /\ Len(bpmInput.pulses) = MinPeaks - 1
  /\ bpmInput.pulses[2].at - bpmInput.pulses[1].at = 22050
  /\ bpmInput.pulses[2].amp = 100
  /\ bpmResult = FallbackBpm

\* C24: every value detectBpm returns is a whole number from 70 to 180; with
\* at least 10 peaks and a dominant interval above 0 the doubling and halving
\* end and give such a value
C24_ResultInRange ==
  lastOp.op = "detectBpm" =>
    /\ bpmResult \in LowBpm..HighBpm
    /\ (/\ bpmInput.length > 0 /\ bpmInput.renders
        /\ Len(PeaksOf(bpmInput)) >= MinPeaks
        /\ BestInterval(RoundedIntervals(PeaksOf(bpmInput))) > 0)
       => bpmResult = TempoOf(BestInterval(RoundedIntervals(PeaksOf(bpmInput))),
                              bpmInput.sampleRate)

\* ten pulses two seconds apart (30 bpm) analysed: doubled twice to 120
C24_Witness ==
  /\ lastOp.op = "detectBpm"
  /\ bpmInput.renders /\ bpmInput.sampleRate = 44100
  /\ Len(bpmInput.pulses) = MinPeaks
  /\ Len(PeaksOf(bpmInput)) = MinPeaks
  /\ bpmInput.pulses[2].at - bpmInput.pulses[1].at = 88200
  /\ bpmResult = 120

\* ------------------------------------------- analysis that fails or ends
\* a slice whose rendering is rejected
FailedRender ==
  [length |-> SliceSeconds * 44100, sampleRate |-> 44100, renders |-> FALSE,
   pulses |-> Train(MaxPulses, 0, 22050, FALSE)]

\* a detectBpm whose failure would reach the caller: the promise is rejected
\* and, without a handler, nothing is set
DetectFailed_Propagates(d) ==
  /\ detecting' = detecting \ {d}
  /\ lastOp' = Op("detectFailed")
  /\ UNCHANGED <<now, isPlaying, duration, sourceNodeRef, startTimeRef,
                 pauseTimeRef, lastPlaybackRateRef, currentTime, isLooping,
                 hotCues, rateVars, fileVars,
                 decoding, loadGen, fxVars, tapVars,
                 mixerVars, bpmVars>>

\* the then-callback of loadFile after a detectBpm that failed inside: the
\* catch of detectBpm made it resolve to the fallback
DetectFailed(d) ==
  /\ detecting' = detecting \ {d}
  /\ bpm' = DetectBpm(FailedRender) * BpmScale
  /\ isBpmAnalyzing' = FALSE
  /\ lastOp' = Op("detectFailed")
  /\ UNCHANGED <<now, isPlaying, duration, sourceNodeRef, startTimeRef,
                 pauseTimeRef, lastPlaybackRateRef, currentTime, isLooping,
                 hotCues, rateVars, isLoaded, fileName, audioBuffer,
                 decoding, loadGen, fxVars, tapVars,
                 mixerVars, bpmVars>>

DetectFalls == \E d \in detecting : DetectFailed(d)
DetectSettles == DetectResolves \/ DetectFalls

NextLive ==
  \/ LoadAny
  \/ DecodeResolves
  \/ DecodeRejects
  \/ DetectResolves
  \/ DetectFalls
  \/ Play
  \/ Pause

\* every promise settles: decodeAudioData resolves or rejects, and detectBpm
\* resolves, with a tempo or with the fallback
SpecLive ==
  /\ Init /\ [][NextLive]_vars
  /\ WF_vars(DecodeResolves) /\ WF_vars(DecodeRejects) /\ WF_vars(DetectSettles)

\* C25: an analysis that fails inside gives 128 and clears the analyzing flag;
\* after a decode that succeeded the analyses in flight all end and the flag
\* becomes false; after a decode that failed the flag is false
C25_AnalysisAlwaysEnds ==
  /\ [](lastOp.op = "detectFailed"
          => bpm = FallbackBpm * BpmScale /\ ~isBpmAnalyzing)
  /\ [](lastOp.op = "decodeFail" => ~isBpmAnalyzing)
  /\ (lastOp.op = "decodeOk") ~> (detecting = {} /\ ~isBpmAnalyzing)

\* f2 loaded and decoded, its analysis failed: tempo 128, flag cleared
C25_Witness ==
  /\ lastOp.op = "detectFailed"
  /\ isLoaded /\ audioBuffer = "f2"
  /\ decoding = {} /\ detecting = {}
  /\ bpm = FallbackBpm * BpmScale /\ ~isBpmAnalyzing

\* ------------------------------------------------- Sync between two decks
\* the other deck, which runs the same hook: its tempo (the one it starts
\* with) and its signed rate
PartnerBpms == {DefaultBpm}
PartnerRates ==
  {RateOf(p, 0, RateScale, r) : p \in PitchValues, r \in BOOLEAN}

\* handleSync: the target is the other deck's bpm times its playbackRate
HandleSync ==
  \E pb \in PartnerBpms, pr \in PartnerRates :
    SyncToBpm((pb * pr) \div RateScale)

NextSync ==
  \/ LoadTrack
  \/ DecodeResolves
  \/ Play
  \/ SetPitchCommand
  \/ SetBendCommand
  \/ HandleSync
  \/ ToggleReverse

SpecSync == Init /\ [][NextSync]_vars

\* C26: while the deck is playing the composed rate is not 0
C26_PlayingRateNonZero == isPlaying => playbackRate # 0

\* C30: the composed rate is negative exactly when the reverse flag is set
C30_DirectionAgreesWithReverse == (playbackRate < 0) <=> isReverse

\* C27: while the deck reports not playing, no started source is connected to
\* its channel strip (the source held in sourceNodeRef is the only one that
\* can be: play disconnects the one before it)
C27_NotPlayingMeansNoSource == ~isPlaying => sourceNodeRef = NoSource

\* C28: once no decode is pending and the file loaded last was decodable, the
\* deck's buffer and duration are those of that file, the one it displays
\* (after load(f1), load(f2): those of f2, whichever decode ended first)
C28_LastLoadOwnsBuffer ==
  (decoding = {} /\ fileName \in Decodable) =>
    (audioBuffer = fileName /\ duration = TrackDuration[fileName])

\* C29: the units connected to the effect return are exactly the unit of the
\* active effect, none when no effect is active
C29_ReturnFedByActiveUnitOnly == fxOutputFrom = FxRoute(activeFX)

====
